---- MODULE Spec2Model ----
(***************************************************************************)
(* Caching reverse proxy: the ApiCache interface, its two backends         *)
(* (LocalCache, RedisCache), the backend selection at start-up and the     *)
(* request handler that uses the selected backend.                         *)
(*                                                                         *)
(* JavaScript values are records tagged by a field "type"; every type has  *)
(* its own field names, so that two values of different types are          *)
(* different records.  JSON text is a sequence of tokens.                   *)
(***************************************************************************)
EXTENDS Integers, Sequences, FiniteSets, TLC

(***************************************************************************)
(* Bounds of the model.                                                    *)
(***************************************************************************)
MaxTicks == 2
MaxQueue == 2

(***************************************************************************)
(* JavaScript values.                                                      *)
(***************************************************************************)
JsNull == [type |-> "null"]
JsUndefined == [type |-> "undefined"]
JsNum(n) == [type |-> "number", num |-> n]
JsStr(s) == [type |-> "string", str |-> s]
JsArr(items) == [type |-> "array", items |-> items]
JsObj(props) == [type |-> "object", props |-> props]
JsMap(entries) == [type |-> "Map", entries |-> entries]
Prop(k, v) == [key |-> k, val |-> v]

\* value.name for a plain object: the value of the last property of that
\* name, undefined when there is none or when value is not a plain object
GetProp(value, name) ==
    IF value.type # "object" THEN JsUndefined
    ELSE LET idx == {i \in 1..Len(value.props) : value.props[i].key = name}
         IN  IF idx = {} THEN JsUndefined
             ELSE value.props[CHOOSE i \in idx : \A j \in idx : j <= i].val

\* typeof value === "object" && value !== null
IsObjectNotNull(value) == value.type \in {"object", "array", "Map"}

(***************************************************************************)
(* JSON text: tokens.                                                      *)
(***************************************************************************)
Punct(c) == [k |-> "punct", s |-> c, n |-> 0]
StrTok(s) == [k |-> "string", s |-> s, n |-> 0]
NumTok(n) == [k |-> "number", s |-> "", n |-> n]
NullTok == [k |-> "null", s |-> "", n |-> 0]

RECURSIVE Stringify(_)
RECURSIVE StringifyItems(_, _)
RECURSIVE StringifyProps(_, _)

\* JSON.stringify without a replacer; a Map has no enumerable own
\* properties and is written as {}
Stringify(v) ==
    CASE v.type = "null" -> <<NullTok>>
      [] v.type = "undefined" -> <<NullTok>>
      [] v.type = "number" -> <<NumTok(v.num)>>
      [] v.type = "string" -> <<StrTok(v.str)>>
      [] v.type = "array" ->
            <<Punct("[")>> \o StringifyItems(v.items, 1) \o <<Punct("]")>>
      [] v.type = "object" ->
            <<Punct("{")>> \o StringifyProps(v.props, TRUE) \o <<Punct("}")>>
      [] v.type = "Map" -> <<Punct("{"), Punct("}")>>

StringifyItems(items, i) ==
    IF i > Len(items) THEN <<>>
    ELSE (IF i > 1 THEN <<Punct(",")>> ELSE <<>>)
         \o Stringify(items[i]) \o StringifyItems(items, i + 1)

\* properties whose value is undefined are left out
StringifyProps(props, first) ==
    IF props = <<>> THEN <<>>
    ELSE IF Head(props).val.type = "undefined"
         THEN StringifyProps(Tail(props), first)
         ELSE (IF first THEN <<>> ELSE <<Punct(",")>>)
              \o <<StrTok(Head(props).key), Punct(":")>>
              \o Stringify(Head(props).val)
              \o StringifyProps(Tail(props), FALSE)

(***************************************************************************)
(* JSON.parse: a recursive-descent parser over the tokens.  The result is  *)
(* [ok, val, next]: ok = FALSE is a SyntaxError.                            *)
(***************************************************************************)
ParseError == [ok |-> FALSE, val |-> JsUndefined, next |-> 0]
ParseOk(v, next) == [ok |-> TRUE, val |-> v, next |-> next]
IsPunct(toks, i, c) == i <= Len(toks) /\ toks[i] = Punct(c)

RECURSIVE ParseValue(_, _)
RECURSIVE ParseItems(_, _, _)
RECURSIVE ParseProps(_, _, _)

ParseValue(toks, i) ==
    IF i > Len(toks) THEN ParseError
    ELSE LET t == toks[i] IN
         CASE t.k = "null" -> ParseOk(JsNull, i + 1)
           [] t.k = "number" -> ParseOk(JsNum(t.n), i + 1)
           [] t.k = "string" -> ParseOk(JsStr(t.s), i + 1)
           [] t.k = "punct" ->
                IF t.s = "[" THEN
                    IF IsPunct(toks, i + 1, "]") THEN ParseOk(JsArr(<<>>), i + 2)
                    ELSE ParseItems(toks, i + 1, <<>>)
                ELSE IF t.s = "{" THEN
                    IF IsPunct(toks, i + 1, "}") THEN ParseOk(JsObj(<<>>), i + 2)
                    ELSE ParseProps(toks, i + 1, <<>>)
                ELSE ParseError

\* toks[i] starts an item of an array whose earlier items are acc
ParseItems(toks, i, acc) ==
    LET r == ParseValue(toks, i) IN
    IF ~r.ok THEN ParseError
    ELSE IF IsPunct(toks, r.next, ",")
         THEN ParseItems(toks, r.next + 1, Append(acc, r.val))
         ELSE IF IsPunct(toks, r.next, "]")
              THEN ParseOk(JsArr(Append(acc, r.val)), r.next + 1)
              ELSE ParseError

\* toks[i] starts a "key": value member of an object whose earlier
\* members are acc
ParseProps(toks, i, acc) ==
    IF ~(i <= Len(toks) /\ toks[i].k = "string" /\ IsPunct(toks, i + 1, ":"))
    THEN ParseError
    ELSE LET r == ParseValue(toks, i + 2) IN
         IF ~r.ok THEN ParseError
         ELSE LET acc2 == Append(acc, Prop(toks[i].s, r.val)) IN
              IF IsPunct(toks, r.next, ",")
              THEN ParseProps(toks, r.next + 1, acc2)
              ELSE IF IsPunct(toks, r.next, "}")
                   THEN ParseOk(JsObj(acc2), r.next + 1)
                   ELSE ParseError

\* JSON.parse(text) without a reviver: the whole text is one value
JsonParse(toks) ==
    LET r == ParseValue(toks, 1) IN
    IF r.ok /\ r.next = Len(toks) + 1 THEN r ELSE ParseError

(***************************************************************************)
(* Map and new Map(iterable).                                              *)
(***************************************************************************)
EmptyMap == JsMap(<<>>)
Entry(k, v) == [key |-> k, val |-> v]

MapHas(m, key) == \E i \in 1..Len(m.entries) : m.entries[i].key = key

MapGet(m, key) ==
    IF MapHas(m, key)
    THEN m.entries[CHOOSE i \in 1..Len(m.entries) : m.entries[i].key = key].val
    ELSE JsUndefined

\* a set under which an existing key keeps the value it has
MapSet_KeepsFirst(m, key, val) ==
    IF MapHas(m, key)
    THEN m
    ELSE JsMap(Append(m.entries, Entry(key, val)))

\* Map.prototype.set: an existing key keeps its position
MapSet(m, key, val) ==
    IF MapHas(m, key)
    THEN JsMap([i \in 1..Len(m.entries) |->
                   IF m.entries[i].key = key THEN Entry(key, val)
                   ELSE m.entries[i]])
    ELSE JsMap(Append(m.entries, Entry(key, val)))

MapDelete(m, key) ==
    JsMap(SelectSeq(m.entries, LAMBDA e : e.key # key))

\* item[i] for an entry object handed to new Map
ItemAt(item, i) ==
    IF item.type = "array" /\ i <= Len(item.items) THEN item.items[i]
    ELSE JsUndefined

RECURSIVE MapFromItems(_, _, _)
MapFromItems(items, i, m) ==
    IF i > Len(items) THEN [ok |-> TRUE, val |-> m]
    ELSE IF ~IsObjectNotNull(items[i]) THEN [ok |-> FALSE, val |-> JsUndefined]
         ELSE MapFromItems(items, i + 1,
                           MapSet(m, ItemAt(items[i], 1), ItemAt(items[i], 2)))

\* new Map(x): ok = FALSE is the TypeError of a value that is not an
\* iterable of entry objects
NewMap(x) ==
    CASE x.type \in {"undefined", "null"} -> [ok |-> TRUE, val |-> EmptyMap]
      [] x.type = "Map" -> [ok |-> TRUE, val |-> x]
      [] x.type = "array" -> MapFromItems(x.items, 1, EmptyMap)
      [] x.type = "string" ->
            IF x.str = "" THEN [ok |-> TRUE, val |-> EmptyMap]
            ELSE [ok |-> FALSE, val |-> JsUndefined]
      [] OTHER -> [ok |-> FALSE, val |-> JsUndefined]

(***************************************************************************)
(* LocalCache: serialization of the map (saveCache) and its reading        *)
(* (tryLoadFromJson).                                                      *)
(***************************************************************************)
\* a replacer that leaves the last entry of a Map out
SaveReplacer_DropsLast(value) ==
    IF value.type = "Map"
    THEN JsObj(<<Prop("dataType", JsStr("Map")),
                 Prop("value",
                      JsArr([i \in 1..(Len(value.entries) - 1) |->
                               JsArr(<<value.entries[i].key,
                                       value.entries[i].val>>)]))>>)
    ELSE value

\* the replacer of saveCache, called on every value top-down
SaveReplacer(value) ==
    IF value.type = "Map"
    THEN JsObj(<<Prop("dataType", JsStr("Map")),
                 Prop("value",
                      JsArr([i \in 1..Len(value.entries) |->
                               JsArr(<<value.entries[i].key,
                                       value.entries[i].val>>)]))>>)
    ELSE value

RECURSIVE Replace(_)
Replace(v) ==
    LET w == SaveReplacer(v) IN
    CASE w.type = "array" ->
            JsArr([i \in 1..Len(w.items) |-> Replace(w.items[i])])
      [] w.type = "object" ->
            JsObj([i \in 1..Len(w.props) |->
                     Prop(w.props[i].key, Replace(w.props[i].val))])
      [] OTHER -> w

\* the text saveCache writes to cache.json
saveCache(cache) == Stringify(Replace(cache))

\* the reviver of tryLoadFromJson, called on every value bottom-up
LoadReviver(value) ==
    IF IsObjectNotNull(value) /\ GetProp(value, "dataType") = JsStr("Map")
    THEN NewMap(GetProp(value, "value"))
    ELSE [ok |-> TRUE, val |-> EmptyMap]

RECURSIVE Revive(_)
RECURSIVE ReviveItems(_, _, _)
RECURSIVE ReviveProps(_, _, _)

\* JSON.parse's walk: the children first, then the value itself
Revive(v) ==
    CASE v.type = "array" ->
            LET r == ReviveItems(v.items, 1, <<>>) IN
            IF r.ok THEN LoadReviver(JsArr(r.val)) ELSE r
      [] v.type = "object" ->
            LET r == ReviveProps(v.props, 1, <<>>) IN
            IF r.ok THEN LoadReviver(JsObj(r.val)) ELSE r
      [] OTHER -> LoadReviver(v)

ReviveItems(items, i, acc) ==
    IF i > Len(items) THEN [ok |-> TRUE, val |-> acc]
    ELSE LET r == Revive(items[i]) IN
         IF r.ok THEN ReviveItems(items, i + 1, Append(acc, r.val)) ELSE r

ReviveProps(props, i, acc) ==
    IF i > Len(props) THEN [ok |-> TRUE, val |-> acc]
    ELSE LET r == Revive(props[i].val) IN
         IF r.ok
         THEN ReviveProps(props, i + 1, Append(acc, Prop(props[i].key, r.val)))
         ELSE r

\* cache.json on disk
FileMissing == [state |-> "missing", text |-> <<>>]
FileUnreadable == [state |-> "unreadable", text |-> <<>>]
FileWith(text) == [state |-> "ok", text |-> text]

\* JSON.parse(readFileSync("cache.json").toString(), reviver):
\* ok = FALSE is an exception (of readFileSync, of JSON.parse or of the
\* reviver), which nothing in tryLoadFromJson catches
tryLoadFromJson(f) ==
    IF f.state # "ok" THEN [ok |-> FALSE, val |-> JsUndefined]
    ELSE LET p == JsonParse(f.text) IN
         IF ~p.ok THEN [ok |-> FALSE, val |-> JsUndefined]
         ELSE Revive(p.val)

\* a CacheEntry object
CacheEntry(data, timeStored, status) ==
    JsObj(<<Prop("data", data), Prop("timeStored", JsNum(timeStored)),
            Prop("status", JsNum(status))>>)

JsBool(b) == [type |-> "boolean", bool |-> b]
JsError(msg) == [type |-> "error", msg |-> msg]

(***************************************************************************)
(* Configuration and the inputs the model draws from.                      *)
(***************************************************************************)
CACHE_TTL_SECONDS == 1800
TtlMs == CACHE_TTL_SECONDS * 1000

\* steps of the clock: half the time to live, so that an age of exactly the
\* time to live occurs
TickSteps == {TtlMs \div 2}

ApiKeys == {"GET /recipes?query=pasta", "GET /a b"}

VARIABLES
    now,        \* Date.now()
    ticks,      \* number of clock steps taken
    file,       \* cache.json
    map,        \* LocalCache.map
    store,      \* the remote store: key -> raw value and expiry
    netUp,      \* whether commands reach the remote store
    queue,      \* the commands the redis client has in flight, in order
    unhandled,  \* a promise nobody awaits was rejected
    cache,      \* the active backend: "unset", "local" or "redis"
    call,       \* the latest call on the ApiCache interface and its outcome
    loaded,     \* the outcome of the latest new LocalCache()
    saved,      \* the map cache.json was last written from
    hist,       \* history of the calls, per key
    selPc,      \* the backend selection: "connecting", "resolved", "rejected"
    h,          \* the request handlers
    proc        \* the process: running or exited, and the persist() calls
                \* its exit handler made

vars == <<now, ticks, file, map, store, netUp, queue, unhandled, cache,
          call, loaded, saved, hist, selPc, h, proc>>

\* the process has not exited; a step of the running process leaves that so
Running == proc.pc = "running" /\ UNCHANGED proc

(***************************************************************************)
(* The remote store.                                                       *)
(***************************************************************************)
NoValue == [present |-> FALSE, raw |-> <<>>, expireAt |-> 0, writtenAt |-> 0]

\* the key holds a value that has not expired
Live(st, k, t) == st[k].present /\ t < st[k].expireAt

\* op is the ApiCache method that sent the command, awaiter who awaits its
\* reply: "caller", a handler, or "nobody"
Command(cmd, key, raw, op, awaiter) ==
    [cmd |-> cmd, key |-> key, raw |-> raw, op |-> op, awaiter |-> awaiter]

\* an expiration given in milliseconds where SETEX takes seconds
SetexSeconds_Millis == CACHE_TTL_SECONDS * 1000

\* the expiration RedisCache.set hands to SETEX, in seconds
SetexSeconds == CACHE_TTL_SECONDS

\* the store after the command
StoreAfter(c) ==
    CASE c.cmd = "SETEX" ->
            [store EXCEPT ![c.key] =
                [present |-> TRUE, raw |-> c.raw,
                 expireAt |-> now + SetexSeconds * 1000,
                 writtenAt |-> now]]
      [] c.cmd = "DEL" -> [store EXCEPT ![c.key] = NoValue]
      [] OTHER -> store

\* the reply of the store to the command: a count, a raw value or null
ReplyTo(c) ==
    CASE c.cmd \in {"EXISTS", "DEL"} ->
            JsNum(IF Live(store, c.key, now) THEN 1 ELSE 0)
      [] c.cmd = "GET" ->
            IF Live(store, c.key, now)
            THEN [type |-> "raw", raw |-> store[c.key].raw]
            ELSE JsNull
      [] OTHER -> JsStr("OK")

(***************************************************************************)
(* RedisCache: what each method makes of the store's reply.                *)
(***************************************************************************)
\* a contains that takes any count for "exists"
RedisContainsResult_AnyCount(reply) == JsBool(reply.num >= 0)

\* contains: (await this.redis.EXISTS(key)) > 0
RedisContainsResult(reply) == JsBool(reply.num > 0)

\* a delete that takes any count for "removed"
RedisDeleteResult_AnyCount(reply) == JsBool(reply.num >= 0)

\* delete: (await this.redis.DEL(key)) === 1
RedisDeleteResult(reply) == JsBool(reply.num = 1)

\* get: [state, result] of the promise
RedisGetResult(reply) ==
    IF reply.type = "null"
    THEN [state |-> "resolved", result |-> JsUndefined]
    ELSE LET p == JsonParse(reply.raw) IN
         IF ~p.ok
         THEN [state |-> "rejected", result |-> JsError("SyntaxError")]
         ELSE IF p.val.type # "null"
              THEN [state |-> "resolved", result |-> p.val]
              ELSE [state |-> "rejected",
                    result |-> JsError("entry not parsed correctly")]

\* the outcome of an awaited command for the method that awaits it
Outcome(c, reply) ==
    CASE c.cmd = "EXISTS" ->
            [state |-> "resolved", result |-> RedisContainsResult(reply)]
      [] c.cmd = "DEL" ->
            [state |-> "resolved", result |-> RedisDeleteResult(reply)]
      [] c.cmd = "GET" -> RedisGetResult(reply)

(***************************************************************************)
(* Calls on the ApiCache interface.                                        *)
(***************************************************************************)
\* inTtl: the call ended less than the time to live after the latest set on
\* its key
NoCall == [op |-> "none", key |-> "", state |-> "resolved",
           result |-> JsUndefined, inTtl |-> TRUE]
Call(op, key, state, result) ==
    [op |-> op, key |-> key, state |-> state, result |-> result,
     inTtl |-> TRUE]

NoHist == [written |-> JsUndefined, setAt |-> 0, everSet |-> FALSE,
           deleted |-> FALSE]

NotLoaded == [state |-> "none", val |-> JsUndefined, of |-> JsUndefined,
              tagged |-> FALSE]

\* the caller awaits every call before it makes the next one
Idle == call.state # "pending"

contains(key) ==
    /\ Running
    /\ Idle
    /\ \/ /\ cache = "local"
          /\ call' = Call("contains", key, "resolved",
                          JsBool(MapHas(map, JsStr(key))))
          /\ UNCHANGED queue
       \/ /\ cache = "redis"
          /\ Len(queue) < MaxQueue
          /\ queue' = Append(queue, Command("EXISTS", key, <<>>, "contains", "caller"))
          /\ call' = Call("contains", key, "pending", JsUndefined)
    /\ UNCHANGED <<now, ticks, file, map, store, netUp, unhandled, cache,
                   loaded, saved, hist, selPc, h>>

delete(key) ==
    /\ Running
    /\ Idle
    /\ \/ /\ cache = "local"
          /\ call' = Call("delete", key, "resolved",
                          JsBool(MapHas(map, JsStr(key))))
          /\ map' = MapDelete(map, JsStr(key))
          /\ hist' = [hist EXCEPT ![key].written = JsUndefined,
                                  ![key].setAt = 0,
                                  ![key].deleted = TRUE]
          /\ UNCHANGED queue
       \/ /\ cache = "redis"
          /\ Len(queue) < MaxQueue
          /\ queue' = Append(queue, Command("DEL", key, <<>>, "delete", "caller"))
          /\ call' = Call("delete", key, "pending", JsUndefined)
          /\ hist' = [hist EXCEPT ![key].written = JsUndefined,
                                  ![key].setAt = 0]
          /\ UNCHANGED map
    /\ UNCHANGED <<now, ticks, file, store, netUp, unhandled, cache, loaded,
                   saved, selPc, h>>

get(key) ==
    /\ Running
    /\ Idle
    /\ \/ /\ cache = "local"
          /\ call' = Call("get", key, "resolved",
                          MapGet(map, JsStr(key)))
          /\ UNCHANGED queue
       \/ /\ cache = "redis"
          /\ Len(queue) < MaxQueue
          /\ queue' = Append(queue, Command("GET", key, <<>>, "get", "caller"))
          /\ call' = Call("get", key, "pending", JsUndefined)
    /\ UNCHANGED <<now, ticks, file, map, store, netUp, unhandled, cache,
                   loaded, saved, hist, selPc, h>>

\* RedisCache.set sends SETEX and returns without awaiting it
set(key, entry) ==
    /\ Running
    /\ Idle
    /\ \/ /\ cache = "local"
          /\ map' = MapSet(map, JsStr(key), entry)
          /\ UNCHANGED queue
       \/ /\ cache = "redis"
          /\ Len(queue) < MaxQueue
          /\ queue' = Append(queue,
                             Command("SETEX", key, Stringify(entry), "set",
                                     "nobody"))
          /\ UNCHANGED map
    /\ call' = Call("set", key, "resolved", JsUndefined)
    /\ hist' = [hist EXCEPT ![key] = [written |-> entry, setAt |-> now,
                                      everSet |-> TRUE, deleted |-> FALSE]]
    /\ UNCHANGED <<now, ticks, file, store, netUp, unhandled, cache, loaded,
                   saved, selPc, h>>

\* RedisCache.persist sends SAVE and returns without awaiting it
persist ==
    /\ Running
    /\ Idle
    /\ \/ /\ cache = "local"
          /\ file' = FileWith(saveCache(map))
          /\ saved' = map
          /\ UNCHANGED queue
       \/ /\ cache = "redis"
          /\ Len(queue) < MaxQueue
          /\ queue' = Append(queue,
                             Command("SAVE", "", <<>>, "persist", "nobody"))
          /\ UNCHANGED <<file, saved>>
    /\ call' = Call("persist", "", "resolved", JsUndefined)
    /\ UNCHANGED <<now, ticks, map, store, netUp, unhandled, cache, loaded,
                   hist, selPc, h>>

(***************************************************************************)
(* Requests and the request handlers.                                      *)
(***************************************************************************)
Handlers == {"h1", "h2"}

Param(name, value) == [name |-> name, value |-> value]
Request(method, path, query) ==
    [method |-> method, path |-> path, query |-> query]

Requests ==
    {Request("GET", "/recipes", <<>>),
     Request("GET", "/recipes", <<Param("query", "pasta")>>),
     Request("GET", "/recipes",
             <<Param("query", "pasta"), Param("apiKey", "SECRET1")>>),
     Request("GET", "/recipes",
             <<Param("query", "pasta"), Param("apiKey", "SECRET2")>>)}

RECURSIVE Join(_)
Join(parts) == IF parts = <<>> THEN "" ELSE Head(parts) \o Join(Tail(parts))

\* URLSearchParams.toString(), as the pieces of the string
RECURSIVE ParamsParts(_, _)
ParamsParts(params, first) ==
    IF params = <<>> THEN <<>>
    ELSE (IF first THEN <<>> ELSE <<"&">>)
         \o <<Head(params).name, "=", Head(params).value>>
         \o ParamsParts(Tail(params), FALSE)

\* req.url: the path and the query string as the client sent them
ReqUrlParts(req) ==
    <<req.path>> \o (IF req.query = <<>> THEN <<>>
                     ELSE <<"?">> \o ParamsParts(req.query, TRUE))

\* sanitizeParams(params, toDelete): every parameter named in toDelete
\* is removed
sanitizeParams(params, toDelete) ==
    SelectSeq(params, LAMBDA p : p.name \notin toDelete)

\* the url the handler builds for its log lines
LoggedUrlParts(req) ==
    <<req.path>> \o (IF Len(req.query) > 0
                     THEN <<"?">> \o ParamsParts(
                              sanitizeParams(req.query, {"apiKey"}), TRUE)
                     ELSE <<>>)

\* const cacheKey = `${req.method} ${req.url}`
cacheKeyParts(req) == <<req.method, " ">> \o ReqUrlParts(req)
cacheKey(req) == Join(cacheKeyParts(req))

AllKeys == ApiKeys \cup {cacheKey(req) : req \in Requests}

NoReply == [status |-> 0, data |-> JsUndefined]
\* no earlier reply for the key
NoPrior == [has |-> FALSE, reply |-> NoReply, at |-> 0]

IdleHandler ==
    [pc |-> "idle", req |-> Request("", "", <<>>), key |-> "",
     logged |-> <<>>, item |-> JsUndefined, replies |-> 0, reply |-> NoReply,
     source |-> "none", age |-> 0, error |-> "", upstreamCalls |-> 0,
     deleteCalled |-> FALSE, repliedAt |-> 0, prior |-> NoPrior]

\* the reply another handler sent from upstream for the key, and when, as
\* the request of handler r enters
PriorReply(r, key) ==
    LET others == {r2 \in Handlers \ {r} :
                     /\ h[r2].pc = "done"
                     /\ h[r2].source = "upstream"
                     /\ h[r2].key = key}
    IN
    IF others = {} THEN NoPrior
    ELSE LET r2 == CHOOSE x \in others : TRUE IN
         [has |-> TRUE, reply |-> h[r2].reply, at |-> h[r2].repliedAt]

(***************************************************************************)
(* The redis client and the network.                                       *)
(***************************************************************************)
\* the reply of a command reaches whoever awaits it
Deliver(c, outcome) ==
    IF c.awaiter = "caller"
    THEN /\ call' = [call EXCEPT !.state = outcome.state,
                                 !.result = outcome.result,
                                 !.inTtl =
                                     \/ c.op # "get"
                                     \/ now < hist[c.key].setAt + TtlMs]
         /\ hist' = IF c.op = "delete" /\ outcome.state = "resolved"
                    THEN [hist EXCEPT ![c.key].deleted = TRUE]
                    ELSE hist
         /\ UNCHANGED <<h, unhandled>>
    ELSE IF c.awaiter \in Handlers
    THEN /\ h' = [h EXCEPT ![c.awaiter] =
                    IF outcome.state = "resolved"
                    THEN [@ EXCEPT !.pc = "gotItem", !.item = outcome.result]
                    ELSE [@ EXCEPT !.pc = "failed", !.error = "get rejected"]]
         /\ unhandled' = IF outcome.state = "resolved" THEN unhandled
                         ELSE unhandled \cup {"handler"}
         /\ UNCHANGED <<call, hist>>
    ELSE /\ unhandled' = IF outcome.state = "resolved" THEN unhandled
                         ELSE unhandled \cup {c.op}
         /\ UNCHANGED <<call, hist, h>>

\* the store executes the oldest command in flight and replies
RedisExec ==
    /\ Running
    /\ queue # <<>>
    /\ netUp
    /\ LET c == Head(queue) IN
       /\ store' = StoreAfter(c)
       /\ Deliver(c, IF c.awaiter = "nobody"
                     THEN [state |-> "resolved", result |-> JsUndefined]
                     ELSE Outcome(c, ReplyTo(c)))
    /\ queue' = Tail(queue)
    /\ UNCHANGED <<now, ticks, file, map, netUp, cache, loaded, saved, selPc>>

\* the oldest command in flight fails: the promise of the command rejects
RedisFail ==
    /\ Running
    /\ queue # <<>>
    /\ ~netUp
    /\ Deliver(Head(queue),
               [state |-> "rejected", result |-> JsError("network")])
    /\ queue' = Tail(queue)
    /\ UNCHANGED <<now, ticks, file, map, store, netUp, cache, loaded, saved,
                   selPc>>

NetDown ==
    /\ Running
    /\ netUp
    /\ netUp' = FALSE
    /\ UNCHANGED <<now, ticks, file, map, store, queue, unhandled, cache,
                   call, loaded, saved, hist, selPc, h>>

NetUp ==
    /\ Running
    /\ ~netUp
    /\ netUp' = TRUE
    /\ UNCHANGED <<now, ticks, file, map, store, queue, unhandled, cache,
                   call, loaded, saved, hist, selPc, h>>

Tick ==
    /\ Running
    /\ ticks < MaxTicks
    /\ \E d \in TickSteps : now' = now + d
    /\ ticks' = ticks + 1
    /\ UNCHANGED <<file, map, store, netUp, queue, unhandled, cache, call,
                   loaded, saved, hist, selPc, h>>

(***************************************************************************)
(* cache.json and new LocalCache().                                        *)
(***************************************************************************)
\* the text is a tagged map: {"dataType":"Map","value":[...]}
IsTaggedMapFile(f) ==
    /\ f.state = "ok"
    /\ JsonParse(f.text).ok
    /\ GetProp(JsonParse(f.text).val, "dataType") = JsStr("Map")
    /\ GetProp(JsonParse(f.text).val, "value").type = "array"

\* what cache.json can be when something else than saveCache made it
DamagedFiles ==
    {FileMissing, FileUnreadable,
     FileWith(<<Punct("{"), StrTok("dataType"), Punct(":")>>),
     FileWith(Stringify(JsObj(<<>>)))}

FileDamage ==
    /\ Running
    /\ \E f \in DamagedFiles : file' = f
    /\ file' # file
    /\ saved' = JsUndefined
    /\ UNCHANGED <<now, ticks, map, store, netUp, queue, unhandled, cache,
                   call, loaded, hist, selPc, h>>

\* new LocalCache(): this.map = LocalCache.tryLoadFromJson()
NewLocalCache ==
    /\ Running
    /\ cache = "local"
    /\ Idle
    /\ LET r == tryLoadFromJson(file) IN
       /\ loaded' = [state |-> IF r.ok THEN "ok" ELSE "threw",
                     val |-> r.val, of |-> saved,
                     tagged |-> IsTaggedMapFile(file)]
       /\ map' = IF r.ok THEN r.val ELSE map
       /\ hist' = IF r.ok
                  THEN [k \in AllKeys |->
                          [NoHist EXCEPT !.everSet = MapHas(r.val, JsStr(k))]]
                  ELSE hist
    /\ UNCHANGED <<now, ticks, file, store, netUp, queue, unhandled, cache,
                   call, saved, selPc, h>>

(***************************************************************************)
(* The ApiCache interface under a caller that awaits each call.            *)
(***************************************************************************)
\* the entries the caller stores
ApiEntries ==
    {CacheEntry(JsNull, 0, 500),
     CacheEntry(JsObj(<<Prop("id", JsNum(1))>>), 1, 200)}

InitApi ==
    /\ now = 0
    /\ ticks = 0
    /\ cache \in {"local", "redis"}
    /\ file = FileWith(saveCache(EmptyMap))
    /\ map = tryLoadFromJson(file).val
    /\ store = [k \in AllKeys |-> NoValue]
    /\ netUp = TRUE
    /\ queue = <<>>
    /\ unhandled = {}
    /\ call = NoCall
    /\ loaded = NotLoaded
    /\ saved = EmptyMap
    /\ hist = [k \in AllKeys |-> NoHist]
    /\ selPc = IF cache = "redis" THEN "resolved" ELSE "rejected"
    /\ h = [r \in Handlers |-> IdleHandler]
    /\ proc = [pc |-> "running", persistCalls |-> 0]

NextApi ==
    \/ \E k \in ApiKeys : contains(k)
    \/ \E k \in ApiKeys : delete(k)
    \/ \E k \in ApiKeys : get(k)
    \/ \E k \in ApiKeys, e \in ApiEntries : set(k, e)
    \/ RedisExec
    \/ RedisFail
    \/ NetDown
    \/ NetUp
    \/ Tick

SpecApi == InitApi /\ [][NextApi]_vars

(***************************************************************************)
(* LocalCache and cache.json: the map is written by persist and read by    *)
(* new LocalCache().                                                       *)
(***************************************************************************)
InitFile == InitApi /\ cache = "local"

NextFile ==
    \/ \E k \in ApiKeys : contains(k)
    \/ \E k \in ApiKeys : get(k)
    \/ \E k \in ApiKeys, e \in ApiEntries : set(k, e)
    \/ \E k \in ApiKeys : delete(k)
    \/ persist
    \/ FileDamage
    \/ NewLocalCache

SpecFile == InitFile /\ [][NextFile]_vars

(***************************************************************************)
(* RedisCache over a store that other clients write to as well.            *)
(***************************************************************************)
\* raw values another client leaves under a key: null, 5, a cut-off
\* object and {}
ForeignRaws ==
    {<<NullTok>>, <<NumTok(5)>>, <<Punct("{"), StrTok("data"), Punct(":")>>,
     Stringify(JsObj(<<>>))}

ForeignWrite(k, raw) ==
    /\ Running
    /\ store' = [store EXCEPT ![k] =
                   [present |-> TRUE, raw |-> raw,
                    expireAt |-> now + CACHE_TTL_SECONDS * 1000,
                    writtenAt |-> now]]
    /\ store' # store
    /\ hist' = [hist EXCEPT ![k] = [NoHist EXCEPT !.everSet = TRUE]]
    /\ UNCHANGED <<now, ticks, file, map, netUp, queue, unhandled, cache,
                   call, loaded, saved, selPc, h>>

InitStore == InitApi /\ cache = "redis"

NextStore ==
    \/ \E k \in ApiKeys : get(k)
    \/ \E k \in ApiKeys, e \in ApiEntries : set(k, e)
    \/ \E k \in ApiKeys, raw \in ForeignRaws : ForeignWrite(k, raw)
    \/ RedisExec

SpecStore == InitStore /\ [][NextStore]_vars

(***************************************************************************)
(* The program: backend selection at start-up and the request handler.     *)
(***************************************************************************)
\* a selector that assigns the networked backend whenever the store is
\* reachable, also after the local backend was chosen
SelectResolve_Failback ==
    /\ Running
    /\ selPc \in {"connecting", "rejected"}
    /\ netUp
    /\ cache' = "redis"
    /\ selPc' = "resolved"
    /\ UNCHANGED <<now, ticks, file, map, store, netUp, queue, unhandled,
                   call, loaded, saved, hist, h>>

\* RedisCache.new() resolves: connect() succeeded; .then sets the cache
SelectResolve ==
    /\ Running
    /\ selPc = "connecting"
    /\ netUp
    /\ cache' = "redis"
    /\ selPc' = "resolved"
    /\ UNCHANGED <<now, ticks, file, map, store, netUp, queue, unhandled,
                   call, loaded, saved, hist, h>>

\* a factory that hands out a backend although connect() failed
SelectReject_HalfInitialized ==
    /\ Running
    /\ selPc = "connecting"
    /\ ~netUp
    /\ cache' = "redis"
    /\ selPc' = "resolved"
    /\ UNCHANGED <<now, ticks, file, map, store, netUp, queue, unhandled,
                   call, loaded, saved, hist, h>>

\* RedisCache.new() rejects: connect() failed; .catch runs
\* cache = new LocalCache(), whose exception nothing catches
SelectReject ==
    /\ Running
    /\ selPc = "connecting"
    /\ ~netUp
    /\ selPc' = "rejected"
    /\ LET r == tryLoadFromJson(file) IN
       IF r.ok
       THEN /\ cache' = "local"
            /\ map' = r.val
            /\ UNCHANGED unhandled
       ELSE /\ unhandled' = unhandled \cup {"selector"}
            /\ UNCHANGED <<cache, map>>
    /\ UNCHANGED <<now, ticks, file, store, netUp, queue, call, loaded,
                   saved, hist, h>>

\* what the upstream call of a handler ends with
UpstreamOutcomes ==
    {[kind |-> "response", status |-> 200,
      data |-> JsObj(<<Prop("id", JsNum(1))>>)],
     [kind |-> "errorResponse", status |-> 404, data |-> JsStr("Not Found")],
     [kind |-> "noResponse", status |-> 500, data |-> JsNull],
     [kind |-> "noRequest", status |-> 500, data |-> JsNull]}

\* item.timeStored as a number; -1 stands for a value that is no number,
\* with which the comparison below is false
TimeStoredOf(item) ==
    IF GetProp(item, "timeStored").type = "number"
    THEN GetProp(item, "timeStored").num
    ELSE -1

\* a freshness test that lets the age reach the time to live
IsFresh_Inclusive(item, t) ==
    /\ TimeStoredOf(item) >= 0
    /\ t - TimeStoredOf(item) <= CACHE_TTL_SECONDS * 1000

\* Date.now() - item.timeStored < CACHE_TTL_SECONDS * 1000
IsFresh(item, t) ==
    /\ TimeStoredOf(item) >= 0
    /\ t - TimeStoredOf(item) < CACHE_TTL_SECONDS * 1000

\* a request enters the handler: the log line, the cache key and
\* await cache.get(cacheKey)
Arrive(r, req) ==
    /\ Running
    /\ h[r].pc = "idle"
    /\ LET key == cacheKey(req)
           hr == [h[r] EXCEPT !.req = req, !.key = key,
                              !.logged = LoggedUrlParts(req),
                              !.prior = PriorReply(r, key)]
       IN
       \/ /\ cache = "unset"
          /\ h' = [h EXCEPT ![r] = [hr EXCEPT !.pc = "failed",
                                              !.error = "TypeError"]]
          /\ unhandled' = unhandled \cup {"handler"}
          /\ UNCHANGED queue
       \/ /\ cache = "local"
          /\ h' = [h EXCEPT ![r] = [hr EXCEPT !.pc = "gotItem",
                                              !.item = MapGet(map, JsStr(key))]]
          /\ UNCHANGED <<queue, unhandled>>
       \/ /\ cache = "redis"
          /\ Len(queue) < MaxQueue
          /\ queue' = Append(queue, Command("GET", key, <<>>, "get", r))
          /\ h' = [h EXCEPT ![r] = [hr EXCEPT !.pc = "awaitGet"]]
          /\ UNCHANGED unhandled
    /\ UNCHANGED <<now, ticks, file, map, store, netUp, cache, call, loaded,
                   saved, hist, selPc>>

\* the handler after await cache.get: a fresh item is the reply, a stale
\* one is deleted, and without a fresh item the upstream call is made
Continue(r) ==
    /\ Running
    /\ h[r].pc = "gotItem"
    /\ LET item == h[r].item IN
       IF item.type \notin {"undefined", "null"} /\ IsFresh(item, now)
       THEN /\ h' = [h EXCEPT ![r] =
                       [@ EXCEPT !.pc = "done",
                                 !.replies = @ + 1,
                                 !.reply = [status |-> GetProp(item, "status").num,
                                            data |-> GetProp(item, "data")],
                                 !.source = "cache",
                                 !.age = now - TimeStoredOf(item)]]
            /\ UNCHANGED <<map, queue>>
       ELSE IF item.type \notin {"undefined", "null"}
       THEN /\ \/ /\ cache = "local"
                  /\ map' = MapDelete(map, JsStr(h[r].key))
                  /\ UNCHANGED queue
               \/ /\ cache = "redis"
                  /\ Len(queue) < MaxQueue
                  /\ queue' = Append(queue, Command("DEL", h[r].key, <<>>,
                                                    "delete", "nobody"))
                  /\ UNCHANGED map
            /\ h' = [h EXCEPT ![r] =
                       [@ EXCEPT !.pc = "upstream",
                                 !.deleteCalled = TRUE,
                                 !.age = now - TimeStoredOf(item),
                                 !.upstreamCalls = @ + 1]]
       ELSE /\ h' = [h EXCEPT ![r] = [@ EXCEPT !.pc = "upstream",
                                               !.upstreamCalls = @ + 1]]
            /\ UNCHANGED <<map, queue>>
    /\ UNCHANGED <<now, ticks, file, store, netUp, unhandled, cache, call,
                   loaded, saved, hist, selPc>>

\* the upstream call ends: cache.set(cacheKey, entry), then the reply
Upstream(r, out) ==
    /\ Running
    /\ h[r].pc = "upstream"
    /\ LET entry == CacheEntry(out.data, now, out.status) IN
       \/ /\ cache = "local"
          /\ map' = MapSet(map, JsStr(h[r].key), entry)
          /\ UNCHANGED queue
       \/ /\ cache = "redis"
          /\ Len(queue) < MaxQueue
          /\ queue' = Append(queue, Command("SETEX", h[r].key,
                                            Stringify(entry), "set", "nobody"))
          /\ UNCHANGED map
    /\ h' = [h EXCEPT ![r] =
               [@ EXCEPT !.pc = "done",
                         !.replies = @ + 1,
                         !.reply = [status |-> out.status, data |-> out.data],
                         !.source = "upstream",
                         !.repliedAt = now]]
    /\ UNCHANGED <<now, ticks, file, store, netUp, unhandled, cache, call,
                   loaded, saved, hist, selPc>>

\* the exit event: the listener calls cache.persist() once and the process
\* ends without waiting for it. With no backend in cache the call throws
\* before any persist() runs; a SAVE handed to the redis client is never sent
Exit ==
    /\ proc.pc = "running"
    /\ \/ /\ cache = "unset"
          /\ proc' = [pc |-> "exited", persistCalls |-> 0]
          /\ unhandled' = unhandled \cup {"exit"}
          /\ UNCHANGED <<file, saved, queue>>
       \/ /\ cache = "local"
          /\ proc' = [pc |-> "exited", persistCalls |-> 1]
          /\ file' = FileWith(saveCache(map))
          /\ saved' = map
          /\ UNCHANGED <<unhandled, queue>>
       \/ /\ cache = "redis"
          /\ proc' = [pc |-> "exited", persistCalls |-> 1]
          /\ queue' = Append(queue,
                             Command("SAVE", "", <<>>, "persist", "nobody"))
          /\ UNCHANGED <<unhandled, file, saved>>
    /\ UNCHANGED <<now, ticks, map, store, netUp, cache, call, loaded, hist,
                   selPc, h>>

\* cache.json when the process starts
InitFiles == {FileMissing, FileWith(saveCache(EmptyMap))}

Init ==
    /\ now = 0
    /\ ticks = 0
    /\ file \in InitFiles
    /\ map = JsUndefined
    /\ store = [k \in AllKeys |-> NoValue]
    /\ netUp \in BOOLEAN
    /\ queue = <<>>
    /\ unhandled = {}
    /\ cache = "unset"
    /\ call = NoCall
    /\ loaded = NotLoaded
    /\ saved = JsUndefined
    /\ hist = [k \in AllKeys |-> NoHist]
    /\ selPc = "connecting"
    /\ h = [r \in Handlers |-> IdleHandler]
    /\ proc = [pc |-> "running", persistCalls |-> 0]

Next ==
    \/ SelectResolve
    \/ SelectReject
    \/ \E r \in Handlers, req \in Requests : Arrive(r, req)
    \/ \E r \in Handlers : Continue(r)
    \/ \E r \in Handlers, out \in UpstreamOutcomes : Upstream(r, out)
    \/ RedisExec
    \/ RedisFail
    \/ NetDown
    \/ NetUp
    \/ Tick
    \/ Exit

Spec == Init /\ [][Next]_vars

(***************************************************************************)
(* Properties of the ApiCache interface (SpecApi).                         *)
(***************************************************************************)
\* the two entries agree in data, timeStored and status
EntryEq(a, b) ==
    \A name \in {"data", "timeStored", "status"} :
        GetProp(a, name) = GetProp(b, name)

\* the active backend holds an entry for k
Holds(k) ==
    IF cache = "local" THEN MapHas(map, JsStr(k)) ELSE Live(store, k, now)

\* what the active backend holds for k
Contents(k) ==
    IF ~Holds(k) THEN JsUndefined
    ELSE IF cache = "local" THEN MapGet(map, JsStr(k))
         ELSE [type |-> "raw", raw |-> store[k].raw]

\* C1: after set(k, e) with no later set or delete on k, and within the time
\* to live, a get(k) that returns returns an entry equal to e in data,
\* timeStored and status
C1_SetThenGet ==
    (/\ call.op = "get"
     /\ call.state = "resolved"
     /\ hist[call.key].written # JsUndefined
     /\ call.inTtl)
    => EntryEq(call.result, hist[call.key].written)

\* C8: when a command of contains, delete, get or set fails on the network,
\* the promise of that call rejects
C8_FailureReported ==
    [][(/\ queue # <<>>
        /\ ~netUp
        /\ queue' = Tail(queue)
        /\ Head(queue).op \in {"contains", "delete", "get", "set"})
       => (/\ call'.op = Head(queue).op
           /\ call'.key = Head(queue).key
           /\ call.state = "pending"
           /\ call'.state = "rejected")]_vars

\* a delete(k) returns in this step
DeleteReturns(k) ==
    /\ call'.op = "delete"
    /\ call'.key = k
    /\ call'.state = "resolved"
    /\ IF cache = "local" THEN call' # call \/ map' # map
       ELSE call.state = "pending"

\* C9: delete(k) returns true exactly when an entry for k exists, leaves no
\* entry for k and every other key as it was, so that a get(k) after it
\* returns absent and a second delete(k) returns false
C9_Delete ==
    /\ [][\A k \in ApiKeys :
            DeleteReturns(k) =>
                /\ call'.result = JsBool(Holds(k))
                /\ ~Holds(k)'
                /\ \A k2 \in ApiKeys \ {k} : Contents(k2)' = Contents(k2)]_vars
    /\ [](((/\ call.op = "get"
            /\ call.state = "resolved"
            /\ hist[call.key].deleted)
           => call.result = JsUndefined))

\* a delete of an existing entry returned true on the networked backend
C9_Witness ==
    /\ cache = "redis"
    /\ call.op = "delete"
    /\ call.state = "resolved"
    /\ call.result = JsBool(TRUE)
    /\ ~Holds(call.key)

\* the result of contains and get for a key without entry
Absent(op) == IF op = "contains" THEN JsBool(FALSE) ELSE JsUndefined

\* a contains or get on a key never set has ended
NeverSetCallEnded ==
    /\ call.op \in {"contains", "get"}
    /\ call.state # "pending"
    /\ ~hist[call.key].everSet

\* C10 as stated: for a key never set, contains returns false and get
\* returns absent, and neither raises an error
C10_NeverRaises ==
    NeverSetCallEnded =>
        (call.state = "resolved" /\ call.result = Absent(call.op))

\* C10: for a key never set, contains returns false and get returns absent;
\* the only error either raises is that of a command of the networked
\* backend failing on the network
C10_NeverSet ==
    NeverSetCallEnded =>
        IF call.state = "resolved" THEN call.result = Absent(call.op)
        ELSE cache = "redis" /\ call.result = JsError("network")

\* contains of a key never set returned false on the networked backend
C10_Witness ==
    /\ NeverSetCallEnded
    /\ cache = "redis"
    /\ call.op = "contains"
    /\ call.state = "resolved"

IsCacheEntry(v) ==
    /\ v.type = "object"
    /\ GetProp(v, "timeStored").type = "number"
    /\ GetProp(v, "status").type = "number"

\* the raw value decodes into a CacheEntry
Decodes(raw) == JsonParse(raw).ok /\ IsCacheEntry(JsonParse(raw).val)

\* C12: get(k) of the networked backend fails with an error when the store
\* holds a raw value for k that does not decode into a CacheEntry, and
\* returns absent without error when the store holds nothing for k
C12_DecodeFailure ==
    [][\A k \in ApiKeys :
         (/\ cache = "redis"
          /\ netUp
          /\ call.op = "get"
          /\ call.key = k
          /\ call.state = "pending"
          /\ call'.state # "pending")
         => IF ~Live(store, k, now)
            THEN call'.state = "resolved" /\ call'.result = JsUndefined
            ELSE IF Decodes(store[k].raw)
                 THEN /\ call'.state = "resolved"
                      /\ call'.result = JsonParse(store[k].raw).val
                 ELSE call'.state = "rejected"]_vars

(***************************************************************************)
(* Properties of LocalCache and cache.json (SpecFile).                     *)
(***************************************************************************)
\* the two maps have the same keys with the same entries
MapEq(a, b) ==
    /\ a.type = "Map"
    /\ b.type = "Map"
    /\ {a.entries[i] : i \in 1..Len(a.entries)}
         = {b.entries[i] : i \in 1..Len(b.entries)}

\* C2: a new LocalCache() that reads the cache.json persist wrote from a
\* map m has a map equal to m
C2_SaveThenLoad ==
    (loaded.state # "none" /\ loaded.of # JsUndefined)
    => (loaded.state = "ok" /\ MapEq(loaded.val, loaded.of))

\* C3: new LocalCache() with a cache.json that is missing, unreadable or
\* not a tagged map raises no error and has an empty map
C3_ConstructNeverFails ==
    (loaded.state # "none" /\ ~loaded.tagged)
    => (loaded.state = "ok" /\ loaded.val = EmptyMap)

\* the text of the file is a tagged map with the keys and entries of m
FileHolds(f, m) ==
    /\ IsTaggedMapFile(f)
    /\ LET r == NewMap(GetProp(JsonParse(f.text).val, "value")) IN
       r.ok /\ MapEq(r.val, m)

\* every entry of map a is an entry of map b
SubMap(a, b) ==
    {a.entries[i] : i \in 1..Len(a.entries)}
        \subseteq {b.entries[i] : i \in 1..Len(b.entries)}

\* C16: contains, delete, get and set of the LocalCache leave cache.json
\* alone; the LocalCache changes the file only in persist(), after which the
\* file holds the map of that moment; and a new LocalCache() has no entry
\* that was not in the map of the last persist()
C16_FileOnlyInPersist ==
    /\ [][/\ (call' # call /\ call'.op \in {"contains", "delete", "get", "set"}
                => file' = file)
           /\ (file' # file /\ saved' # JsUndefined
                => /\ call'.op = "persist"
                   /\ saved' = map
                   /\ FileHolds(file', map))]_vars
    /\ [](loaded.state = "ok"
           => SubMap(loaded.val,
                     IF loaded.of = JsUndefined THEN EmptyMap ELSE loaded.of))

\* persist() wrote a map with entries, and an entry was set after it
C16_Witness ==
    /\ saved # JsUndefined
    /\ FileHolds(file, saved)
    /\ saved.entries # <<>>
    /\ call.op = "set"
    /\ ~MapEq(map, saved)

(***************************************************************************)
(* Properties of the program (Spec).                                       *)
(***************************************************************************)
\* C4: once RedisCache.new() has settled and its callback has run, the
\* active backend is the LocalCache if it rejected and the RedisCache if it
\* resolved, and never unset
C4_ExactlyOneBackend ==
    /\ selPc = "rejected" => cache = "local"
    /\ selPc = "resolved" => cache = "redis"

\* C5: a request that arrives while the active backend is unset does not
\* fail on the unset backend
C5_ToleratesUnsetBackend ==
    \A r \in Handlers : ~(h[r].pc = "failed" /\ h[r].error = "TypeError")

\* the values of the apiKey parameters of the request
Secrets(req) ==
    {req.query[i].value :
        i \in {j \in 1..Len(req.query) : req.query[j].name = "apiKey"}}

\* the two requests differ at most in their apiKey parameters
SameButApiKey(a, b) ==
    /\ a.method = b.method
    /\ a.path = b.path
    /\ sanitizeParams(a.query, {"apiKey"}) = sanitizeParams(b.query, {"apiKey"})

\* C6: the cache key of a request holds no apiKey value, and two requests
\* that differ only in their apiKey have the same cache key
C6_KeyWithoutApiKey ==
    /\ \A r \in Handlers :
          h[r].pc # "idle" =>
              /\ h[r].key = Join(cacheKeyParts(h[r].req))
              /\ \A i \in 1..Len(cacheKeyParts(h[r].req)) :
                    cacheKeyParts(h[r].req)[i] \notin Secrets(h[r].req)
    /\ \A r1, r2 \in Handlers :
          (/\ h[r1].pc # "idle"
           /\ h[r2].pc # "idle"
           /\ SameButApiKey(h[r1].req, h[r2].req))
          => h[r1].key = h[r2].key

\* C7: the handler replies from the cache only with an entry younger than
\* the time to live; with an entry of that age or older it calls delete on
\* the key and goes on to the upstream call as on a miss
C7_OnlyFreshServed ==
    /\ [](\A r \in Handlers :
            /\ h[r].source = "cache" =>
                  h[r].age < CACHE_TTL_SECONDS * 1000 /\ ~h[r].deleteCalled
            /\ h[r].deleteCalled =>
                  /\ h[r].age >= CACHE_TTL_SECONDS * 1000
                  /\ h[r].source # "cache"
                  /\ h[r].upstreamCalls = 1)
    /\ [][\A r \in Handlers :
            (~h[r].deleteCalled /\ h'[r].deleteCalled) =>
                /\ h'[r].pc = "upstream"
                /\ h'[r].replies = 0
                /\ IF cache = "local"
                   THEN ~MapHas(map', JsStr(h[r].key))
                   ELSE queue' = Append(queue, Command("DEL", h[r].key, <<>>,
                                                       "delete", "nobody"))]_vars

\* a handler got an entry exactly as old as the time to live, deleted it and
\* replied from upstream
C7_Witness ==
    \E r \in Handlers :
        /\ h[r].deleteCalled
        /\ h[r].age = CACHE_TTL_SECONDS * 1000
        /\ h[r].pc = "done"
        /\ h[r].source = "upstream"

\* C13: backend selection happens once: once the selection has settled it
\* never runs again, and once the active backend variable holds a backend it
\* never changes, whatever later happens to the networked store
C13_SelectedOnce ==
    [][/\ (cache # "unset" => cache' = cache)
       /\ (selPc # "connecting" => selPc' = selPc)]_vars

\* the local backend is active, the networked store is reachable again and a
\* request was answered after that
C13_Witness ==
    /\ cache = "local"
    /\ selPc = "rejected"
    /\ netUp
    /\ \E r \in Handlers : h[r].pc = "done"

\* C17: RedisCache.new() resolves with a backend only when connect() has
\* succeeded; when connect() fails it rejects and no networked backend
\* reaches the caller
C17_NewAfterConnect ==
    [][/\ (selPc = "connecting" /\ selPc' = "resolved"
            => netUp /\ cache' = "redis")
       /\ (selPc = "connecting" /\ selPc' # selPc /\ ~netUp
            => selPc' = "rejected" /\ cache' # "redis")]_vars

\* new() resolved and the networked backend answered a request
C17_Witness ==
    /\ selPc = "resolved"
    /\ cache = "redis"
    /\ \E r \in Handlers : h[r].pc = "done"

\* C14: when the process has exited, its exit handler has made exactly one
\* persist() call on the active backend, whatever state the process was in,
\* the selection still pending included
C14_ExitPersistsOnce ==
    proc.pc = "exited" => proc.persistCalls = 1

\* the active backend holds, under the handler's key, the entry made of the
\* reply the handler sent at time t
WrittenBack(r, t) ==
    LET key == h'[r].key
        entry == CacheEntry(h'[r].reply.data, t, h'[r].reply.status)
    IN
    IF cache = "local"
    THEN EntryEq(MapGet(map', JsStr(key)), entry)
    ELSE /\ Live(store', key, t)
         /\ store'[key].raw = Stringify(entry)

\* C15: a reply from a fresh entry comes with no upstream call and no cache
\* write; a reply after a miss or a stale entry comes with one upstream call
\* and with its entry in the backend's store when the reply is sent
C15_ControlFlow ==
    [][\A r \in Handlers :
         /\ (h[r].pc = "gotItem" /\ h'[r].pc = "done"
             => /\ h'[r].source = "cache"
                /\ h'[r].upstreamCalls = 0
                /\ map' = map /\ queue' = queue /\ store' = store)
         /\ (h[r].pc = "upstream" /\ h'[r].pc = "done"
             => /\ h'[r].source = "upstream"
                /\ h'[r].upstreamCalls = 1
                /\ WrittenBack(r, now))]_vars

\* the maps agree on every key but k
SameButKey(m1, m2, k) ==
    \A k2 \in AllKeys \ {k} : MapGet(m1, JsStr(k2)) = MapGet(m2, JsStr(k2))

\* C18: whatever the handlers interleave, a set or delete on key k changes
\* the entry of k alone, and after a set the entry of k is the whole entry of
\* that set, so that of two racing sets the one executed last stays
C18_OnlyItsKey ==
    [][/\ \A r \in Handlers :
            /\ (cache = "local" /\ h[r].pc = "upstream" /\ h'[r].pc = "done"
                 => /\ SameButKey(map, map', h[r].key)
                    /\ MapGet(map', JsStr(h[r].key))
                         = CacheEntry(h'[r].reply.data, now,
                                      h'[r].reply.status))
            /\ (cache = "local" /\ ~h[r].deleteCalled /\ h'[r].deleteCalled
                 => /\ SameButKey(map, map', h[r].key)
                    /\ ~MapHas(map', JsStr(h[r].key)))
       /\ (cache = "local" /\ map' # map
            => \E r \in Handlers :
                 h'[r] # h[r] /\ h'[r].pc \in {"upstream", "done"})
       /\ (netUp /\ queue # <<>> /\ queue' = Tail(queue)
            => /\ \A k2 \in AllKeys \ {Head(queue).key} :
                      store'[k2] = store[k2]
               /\ Head(queue).cmd = "SETEX"
                    => store'[Head(queue).key].raw = Head(queue).raw
               /\ Head(queue).cmd = "DEL"
                    => store'[Head(queue).key] = NoValue)
       /\ (store' # store => netUp /\ queue # <<>> /\ queue' = Tail(queue))
      ]_vars

\* two handlers wrote different entries under one key of the LocalCache
C18_Witness ==
    /\ cache = "local"
    /\ h["h1"].key = h["h2"].key
    /\ \A r \in Handlers : h[r].pc = "done" /\ h[r].source = "upstream"
    /\ h["h1"].reply # h["h2"].reply
    /\ MapHas(map, JsStr(h["h1"].key))

\* C19: a handler never sends two replies, and a handler that has ended,
\* on whichever path, has sent one
C19_ExactlyOneReply ==
    \A r \in Handlers :
        /\ h[r].replies <= 1
        /\ h[r].pc \in {"done", "failed"} => h[r].replies = 1

\* the handler hands the backend the entry of the reply it is sending
StoresReply(r) ==
    LET entry == CacheEntry(h'[r].reply.data, now, h'[r].reply.status) IN
    IF cache = "local"
    THEN MapGet(map', JsStr(h[r].key)) = entry
    ELSE /\ queue' # <<>>
         /\ queue'[Len(queue')].cmd = "SETEX"
         /\ queue'[Len(queue')].key = h[r].key
         /\ queue'[Len(queue')].raw = Stringify(entry)

\* C20: the handler stores the status and body of a reply from upstream,
\* also of a failed call ({data: null, status: 500} without response), and a
\* request for a key that was answered from upstream less than the time to
\* live ago is answered from the cache with that status and body, without
\* an upstream call
C20_FailuresCached ==
    [][\A r \in Handlers :
         /\ (h[r].pc = "upstream" /\ h'[r].pc = "done"
             => /\ StoresReply(r)
                /\ h'[r].reply.status \in {200, 404, 500}
                /\ h'[r].reply.status = 500 => h'[r].reply.data = JsNull)
         /\ (/\ h[r].pc \in {"awaitGet", "gotItem"}
             /\ h'[r].pc \notin {"awaitGet", "gotItem"}
             /\ h[r].prior.has
             /\ now - h[r].prior.at < CACHE_TTL_SECONDS * 1000
             => /\ h'[r].pc = "done"
                /\ h'[r].source = "cache"
                /\ h'[r].reply = h[r].prior.reply
                /\ h'[r].upstreamCalls = 0)]_vars

====
